---- MODULE Spec2Model ----
(***************************************************************************)
(* A model of the sitemap generator: the crawl engine of WebsiteScraper    *)
(* (utils/website_scraper.py) and the serializer/validator of              *)
(* SitemapGenerator (utils/sitemap_generator.py).                          *)
(*                                                                         *)
(* Strings are sequences of one-character strings, so that urlparse,       *)
(* urlunparse, endswith, lower, replace and the XML escaping are computed  *)
(* character by character as the code computes them.                       *)
(*                                                                         *)
(* The specifications that share the module:                                   *)
(*   SpecNormalize  applies _normalize_url once and twice to a URL string  *)
(*   Spec           one WebsiteScraper object running scrape_website       *)
(*   SpecSitemap    generate_sitemap followed by validate_sitemap          *)
(*   SpecRepeat     scrape_website called again on the same object         *)
(*   SpecLive       Spec with the fairness of a program that keeps running *)
(***************************************************************************)
EXTENDS Integers, Sequences, FiniteSets, TLC

VARIABLES
    \* ---- SpecNormalize
    nPc,            \* "input" | "once" | "twice"
    nIn,            \* the URL string given to _normalize_url
    nOnce,          \* _normalize_url(nIn)
    nTwice,         \* _normalize_url(_normalize_url(nIn))
    \* ---- Spec: the web and one WebsiteScraper object
    site,           \* the web: URL string -> markup of the page served there
    max_depth,      \* self.max_depth
    include_images, \* self.include_images
    base_domain,    \* self.base_domain (<<>> is None)
    visited_urls,   \* self.visited_urls
    found_urls,     \* self.found_urls
    found_images,   \* self.found_images
    start_url,      \* scrape_website's local start_url, normalized
    pc,             \* "idle" | "call" | "loop" | "done"
    call,           \* the pending _scrape_recursive(url, depth) call
    stack,          \* the active _scrape_recursive frames, innermost last
    fetchLog,       \* history: every GET sent, in order, with its outcome
    result,         \* the list scrape_website returned
    calls,          \* history: the scrape_website calls made on the object
    sleeps,         \* history: the time.sleep(self.delay) calls made
    \* ---- SpecSitemap: one SitemapGenerator object
    sPc,            \* "input" | "generated" | "validated"
    entries,        \* the list given to generate_sitemap
    xml,            \* the document generate_sitemap returned
    report          \* the dictionary validate_sitemap returned

normVars == <<nPc, nIn, nOnce, nTwice>>
crawlVars == <<site, max_depth, include_images, base_domain, visited_urls,
               found_urls, found_images, start_url, pc, call, stack,
               fetchLog, result, calls, sleeps>>
sitemapVars == <<sPc, entries, xml, report>>
vars == <<nPc, nIn, nOnce, nTwice, site, max_depth, include_images,
          base_domain, visited_urls, found_urls, found_images, start_url,
          pc, call, stack, fetchLog, result, calls, sleeps, sPc, entries,
          xml, report>>

(***************************************************************************)
(* Bounds of the model.                                                    *)
(***************************************************************************)
MaxPathLen == 3
MaxQueryLen == 2
MaxDepth == 2
MaxRuns == 2
MaxCalls == 2

(***************************************************************************)
(* Strings.                                                                *)
(***************************************************************************)
LowerLetters ==
    <<"a", "b", "c", "d", "e", "f", "g", "h", "i", "j", "k", "l", "m",
      "n", "o", "p", "q", "r", "s", "t", "u", "v", "w", "x", "y", "z">>
UpperLetters ==
    <<"A", "B", "C", "D", "E", "F", "G", "H", "I", "J", "K", "L", "M",
      "N", "O", "P", "Q", "R", "S", "T", "U", "V", "W", "X", "Y", "Z">>
Digits == {"0", "1", "2", "3", "4", "5", "6", "7", "8", "9"}

Range(s) == { s[i] : i \in 1..Len(s) }

\* the element of a one-element set.  The({ F(v) : v \in {e} }) is F(e) with
\* e computed once and held as v, the way the code holds a value in a local
\* variable.
The(S) == CHOOSE x \in S : TRUE

IsAlpha(c) == c \in Range(LowerLetters) \cup Range(UpperLetters)

\* str.lower() of one character
LowerChar(c) ==
    IF c \in Range(UpperLetters)
    THEN LowerLetters[CHOOSE i \in 1..Len(UpperLetters) : UpperLetters[i] = c]
    ELSE c

\* str.lower()
Lower(s) == The({ [i \in 1..Len(v) |-> LowerChar(v[i])] : v \in {s} })

\* s[a:b] of Python, 0-based, end exclusive, for 0 <= a
Slice(s, a, b) ==
    LET hi == IF b > Len(s) THEN Len(s) ELSE b
    IN  IF a >= hi THEN <<>> ELSE SubSeq(s, a + 1, hi)

\* s[a:]
From(s, a) == Slice(s, a, Len(s))

\* s.startswith(p)
StartsWith(s, p) == Len(p) <= Len(s) /\ SubSeq(s, 1, Len(p)) = p

\* s.endswith(p)
EndsWith(s, p) == Len(p) <= Len(s) /\ SubSeq(s, Len(s) - Len(p) + 1, Len(s)) = p

\* p in s
Contains(s, p) ==
    \E i \in 0..(Len(s) - Len(p)) : SubSeq(s, i + 1, i + Len(p)) = p

\* s.find(c) for a set of characters: the 0-based index of the first
\* character of s that is in cs, or -1
FindAny(s, cs) ==
    IF \E i \in 1..Len(s) : s[i] \in cs
    THEN (CHOOSE i \in 1..Len(s) :
              s[i] \in cs /\ \A j \in 1..(i - 1) : s[j] \notin cs) - 1
    ELSE -1

\* s.rfind(c)
RFind(s, c) ==
    IF \E i \in 1..Len(s) : s[i] = c
    THEN (CHOOSE i \in 1..Len(s) :
              s[i] = c /\ \A j \in (i + 1)..Len(s) : s[j] # c) - 1
    ELSE -1

\* s.split('/')[-1]
LastSegment(s) == From(s, RFind(s, "/") + 1)

\* s[:-1]
DropLast(s) == Slice(s, 0, Len(s) - 1)

HTTP == <<"h", "t", "t", "p">>
HTTPS == <<"h", "t", "t", "p", "s">>

(***************************************************************************)
(* urllib.parse, as _normalize_url and its callers use it.  The model's    *)
(* strings hold no ';' (no params), no '[' or ']' (no IPv6 host, so        *)
(* urlparse never raises) and no whitespace.                               *)
(***************************************************************************)
SchemeChars == Range(LowerLetters) \cup Range(UpperLetters) \cup Digits
                   \cup {"+", "-", "."}

\* s.split(c, 1) given i = s.find(c): the text before c and the text after
\* it ('' when c is not in s)
SplitAt(s, i) ==
    IF i < 0 THEN [head |-> s, tail |-> <<>>]
    ELSE [head |-> Slice(s, 0, i), tail |-> From(s, i + 1)]

SplitFirst(s, c) == SplitAt(s, FindAny(s, {c}))

\* urlsplit: the scheme is the text before the first ':' when that text
\* starts with a letter and holds scheme characters only
SchemeSplitAt(url, i) ==
    IF i > 0 /\ IsAlpha(url[1]) /\ \A k \in 1..i : url[k] \in SchemeChars
    THEN [scheme |-> Lower(Slice(url, 0, i)), rest |-> From(url, i + 1)]
    ELSE [scheme |-> <<>>, rest |-> url]

SplitScheme(url) == SchemeSplitAt(url, FindAny(url, {":"}))

\* urlsplit: after '//' the netloc runs to the first '/', '?' or '#'
NetlocSplitAt(s, d) ==
    IF d < 0 THEN [netloc |-> s, rest |-> <<>>]
    ELSE [netloc |-> Slice(s, 0, d), rest |-> From(s, d)]

SplitNetloc(rest) ==
    IF Slice(rest, 0, 2) = <<"/", "/">>
    THEN NetlocSplitAt(From(rest, 2), FindAny(From(rest, 2), {"/", "?", "#"}))
    ELSE [netloc |-> <<>>, rest |-> rest]

ParseQuery(sch, net, fr, qu) ==
    [scheme |-> sch.scheme, netloc |-> net.netloc, path |-> qu.head,
     query |-> qu.tail, fragment |-> fr.tail]

ParseFragment(sch, net, fr) ==
    The({ ParseQuery(sch, net, fr, qu) : qu \in { SplitFirst(fr.head, "?") } })

ParseNetloc(sch, net) ==
    The({ ParseFragment(sch, net, fr) : fr \in { SplitFirst(net.rest, "#") } })

ParseScheme(sch) ==
    The({ ParseNetloc(sch, net) : net \in { SplitNetloc(sch.rest) } })

\* urlparse(url): scheme, netloc, path, query, fragment
urlparse(url) ==
    The({ ParseScheme(sch) : sch \in { SplitScheme(u) : u \in {url} } })

\* urlunparse((scheme, netloc, path, '', query, fragment))
urlunparse(scheme, netloc, path, query, fragment) ==
    LET withNetloc ==
            IF netloc # <<>>
               \/ (scheme \in {HTTP, HTTPS} /\ Slice(path, 0, 2) # <<"/", "/">>)
            THEN <<"/", "/">> \o netloc
                 \o (IF path # <<>> /\ path[1] # "/" THEN <<"/">> ELSE <<>>)
                 \o path
            ELSE path
        withScheme == IF scheme # <<>> THEN scheme \o <<":">> \o withNetloc
                      ELSE withNetloc
        withQuery == IF query # <<>> THEN withScheme \o <<"?">> \o query
                     ELSE withScheme
    IN  IF fragment # <<>> THEN withQuery \o <<"#">> \o fragment ELSE withQuery

\* The slip of dropping the final slash whatever the last path segment is
\* (the '.' test left out).
StripSlashAlways(normalized, parsed) ==
    IF EndsWith(normalized, <<"/">>) /\ Len(parsed.path) > 1
    THEN DropLast(normalized)
    ELSE normalized

\* _normalize_url, "Remover trailing slash para arquivos": the last
\* character of the rebuilt URL is dropped when it is '/', the path has more
\* than one character and the last path segment holds a '.'
StripSlash(normalized, parsed) ==
    IF /\ EndsWith(normalized, <<"/">>)
       /\ Len(parsed.path) > 1
       /\ "." \in Range(LastSegment(parsed.path))
    THEN DropLast(normalized)
    ELSE normalized

\* _normalize_url, "Remover fragmento": the URL rebuilt with the netloc in
\* lower case and without its fragment
Rebuilt(parsed) ==
    urlunparse(parsed.scheme, Lower(parsed.netloc), parsed.path, parsed.query, <<>>)

NormalizeParsed(parsed) ==
    The({ StripSlash(normalized, parsed) : normalized \in { Rebuilt(parsed) } })

\* WebsiteScraper._normalize_url
normalize_url(url) ==
    The({ NormalizeParsed(parsed) : parsed \in { urlparse(url) } })

(***************************************************************************)
(* The variables of a specification that is not running.                   *)
(***************************************************************************)
NormIdle ==
    /\ nPc = "off"
    /\ nIn = <<>>
    /\ nOnce = <<>>
    /\ nTwice = <<>>

CrawlIdle ==
    /\ site = <<>>
    /\ max_depth = 0
    /\ include_images = FALSE
    /\ base_domain = <<>>
    /\ visited_urls = {}
    /\ found_urls = {}
    /\ found_images = {}
    /\ start_url = <<>>
    /\ pc = "off"
    /\ call = <<>>
    /\ stack = <<>>
    /\ fetchLog = <<>>
    /\ result = <<>>
    /\ calls = 0
    /\ sleeps = 0


NoReport == [valid |-> FALSE, url_count |-> 0, error |-> "none"]
NoDocument == [xmlns |-> "", tag |-> "", children |-> <<>>]

SitemapIdle ==
    /\ sPc = "off"
    /\ entries = <<>>
    /\ xml = NoDocument
    /\ report = NoReport

(***************************************************************************)
(* SpecNormalize: _normalize_url applied once and twice to a URL string.   *)
(***************************************************************************)
\* all strings over cs of length at most n
StringsUpTo(cs, n) == UNION { [1..k -> cs] : k \in 0..n }

NormSchemes == {HTTPS}
NormHosts == {<<"a">>, <<"A", "b">>}
NormPaths ==
    {<<>>} \cup { <<"/">> \o p : p \in StringsUpTo({"/", "d", "."}, MaxPathLen - 1) }
NormQueries ==
    {<<>>} \cup { <<"?">> \o q : q \in StringsUpTo({"/", "q"}, MaxQueryLen) }
NormFragments == {<<>>, <<"#">>, <<"#", "/">>}

NormInputs ==
    { s \o <<":", "/", "/">> \o h \o p \o q \o f :
        s \in NormSchemes, h \in NormHosts, p \in NormPaths,
        q \in NormQueries, f \in NormFragments }

NormInit ==
    /\ nPc = "input"
    /\ nIn \in NormInputs
    /\ nOnce = <<>>
    /\ nTwice = <<>>
    /\ CrawlIdle
    /\ SitemapIdle

NormalizeOnce ==
    /\ nPc = "input"
    /\ nOnce' = normalize_url(nIn)
    /\ nPc' = "once"
    /\ UNCHANGED <<nIn, nTwice>>
    /\ UNCHANGED <<crawlVars, sitemapVars>>

NormalizeTwice ==
    /\ nPc = "once"
    /\ nTwice' = normalize_url(nOnce)
    /\ nPc' = "twice"
    /\ UNCHANGED <<nIn, nOnce>>
    /\ UNCHANGED <<crawlVars, sitemapVars>>

NormNext == NormalizeOnce \/ NormalizeTwice

SpecNormalize == NormInit /\ [][NormNext]_vars

(***************************************************************************)
(* URL classification and resolution of WebsiteScraper.                    *)
(***************************************************************************)
allowed_extensions ==
    { <<".", "h", "t", "m", "l">>, <<".", "h", "t", "m">>,
      <<".", "p", "h", "p">>, <<".", "a", "s", "p">>,
      <<".", "a", "s", "p", "x">>, <<".", "j", "s", "p">>,
      <<".", "c", "f", "m">>, <<".", "p", "d", "f">>,
      <<".", "d", "o", "c">>, <<".", "d", "o", "c", "x">>,
      <<".", "x", "l", "s">>, <<".", "x", "l", "s", "x">>,
      <<".", "p", "p", "t">>, <<".", "p", "p", "t", "x">> }

image_extensions ==
    { <<".", "j", "p", "g">>, <<".", "j", "p", "e", "g">>,
      <<".", "p", "n", "g">>, <<".", "g", "i", "f">>,
      <<".", "b", "m", "p">>, <<".", "s", "v", "g">>,
      <<".", "w", "e", "b", "p">>, <<".", "i", "c", "o">>,
      <<".", "t", "i", "f", "f">>, <<".", "t", "i", "f">>,
      <<".", "a", "v", "i", "f">>, <<".", "j", "f", "i", "f">>,
      <<".", "p", "j", "p", "e", "g">>, <<".", "p", "j", "p">> }

resource_extensions ==
    { <<".", "c", "s", "s">>, <<".", "j", "s">>, <<".", "x", "m", "l">>,
      <<".", "t", "x", "t">>, <<".", "p", "d", "f">> }

image_indicators ==
    { <<"i", "m", "a", "g", "e">>, <<"i", "m", "g">>,
      <<"p", "h", "o", "t", "o">>, <<"p", "i", "c", "t", "u", "r", "e">>,
      <<"t", "h", "u", "m", "b">>, <<"a", "v", "a", "t", "a", "r">>,
      <<"i", "c", "o", "n">> }

\* the prefixes _resolve_url rejects
rejected_prefixes ==
    { <<"#">>,
      <<"j", "a", "v", "a", "s", "c", "r", "i", "p", "t", ":">>,
      <<"m", "a", "i", "l", "t", "o", ":">>,
      <<"t", "e", "l", ":">> }

\* The slip of comparing nothing: every URL counts as in the domain.
is_same_domain_any(url) == TRUE

\* f"{parsed_url.scheme}://{parsed_url.netloc}"
DomainOf(parsed_url) == parsed_url.scheme \o <<":", "/", "/">> \o parsed_url.netloc

\* WebsiteScraper._is_same_domain: scheme://netloc of url against
\* self.base_domain, the netloc compared as it is written
is_same_domain(url) ==
    \E parsed_url \in { urlparse(url) } : DomainOf(parsed_url) = base_domain

IsPagePath(path) ==
    \/ \E ext \in allowed_extensions : EndsWith(path, ext)
    \/ "." \notin Range(LastSegment(path))
    \/ EndsWith(path, <<"/">>)

\* WebsiteScraper._is_valid_page_url
is_valid_page_url(url) ==
    \E path \in { Lower(urlparse(url).path) } : IsPagePath(path)

IsResourcePath(path) == \E ext \in resource_extensions : EndsWith(path, ext)

\* WebsiteScraper._is_valid_resource_url
is_valid_resource_url(url) ==
    \E path \in { Lower(urlparse(url).path) } : IsResourcePath(path)

IsImageParsed(path, query) ==
    \/ \E ext \in image_extensions : EndsWith(path, ext)
    \/ \E indicator \in image_indicators : Contains(path, indicator)
    \/ /\ query # <<>>
       /\ \E ext \in image_extensions : Contains(Lower(query), From(ext, 1))

ImageParsed(parsed) == IsImageParsed(Lower(parsed.path), parsed.query)

\* WebsiteScraper._is_valid_image_url
is_valid_image_url(url) ==
    \E parsed \in { urlparse(url) } : ImageParsed(parsed)

\* str.strip() for the blank
RECURSIVE Strip(_)
Strip(s) ==
    IF s # <<>> /\ s[1] = " " THEN Strip(Tail(s))
    ELSE IF s # <<>> /\ s[Len(s)] = " " THEN Strip(DropLast(s))
    ELSE s

JoinParsed(base, url, b, u, scheme) ==
    IF scheme # b.scheme \/ scheme \notin {HTTP, HTTPS} THEN url
    ELSE IF u.netloc # <<>>
         THEN urlunparse(scheme, u.netloc, u.path, u.query, u.fragment)
    ELSE IF u.path = <<>>
         THEN urlunparse(scheme, b.netloc, b.path,
                         IF u.query = <<>> THEN b.query ELSE u.query,
                         u.fragment)
    ELSE IF u.path[1] = "/"
         THEN urlunparse(scheme, b.netloc, u.path, u.query, u.fragment)
    ELSE urlunparse(scheme, b.netloc,
                    Slice(b.path, 0, RFind(b.path, "/") + 1) \o u.path,
                    u.query, u.fragment)

JoinSchemes(base, url, b, u) ==
    JoinParsed(base, url, b, u, IF u.scheme = <<>> THEN b.scheme ELSE u.scheme)

\* urljoin(base, url), for references without "." and ".." segments and
\* without empty segments (the model's markup holds no other)
urljoin(base, url) ==
    IF base = <<>> THEN url
    ELSE IF url = <<>> THEN base
    ELSE The({ JoinSchemes(base, url, b, u) :
                 b \in { urlparse(base) }, u \in { urlparse(url) } })

\* _resolve_url after url.strip()
ResolveStripped(u, base_url) ==
    IF StartsWith(u, HTTP)
    THEN IF is_same_domain(u) THEN normalize_url(u) ELSE u
    ELSE normalize_url(urljoin(base_url, u))

\* WebsiteScraper._resolve_url; <<>> stands for None and for '' alike
\* (every caller tests the result with "if full_url and ...")
resolve_url(url, base_url) ==
    IF url = <<>> \/ \E pre \in rejected_prefixes : StartsWith(url, pre)
    THEN <<>>
    ELSE The({ ResolveStripped(u, base_url) : u \in { Strip(url) } })

(***************************************************************************)
(* Markup.  A page is the set of references its markup holds: a are the    *)
(* href/action values of its a and form tags, link the href values of its  *)
(* link tags, img the image references of every source _extract_images     *)
(* reads (img src, data-src, srcset entries, CSS url(), icons, meta tags,   *)
(* data-* attributes, script strings).                                     *)
(***************************************************************************)
EmptyPage == [a |-> {}, link |-> {}, img |-> {}]

\* WebsiteScraper._extract_links
extract_links(page, base_url) ==
    { full_url \in { resolve_url(href, base_url) : href \in page.a } :
        full_url # <<>> /\ is_valid_page_url(full_url) }
    \cup
    { full_url \in { resolve_url(href, base_url) : href \in page.link } :
        full_url # <<>> /\ is_valid_resource_url(full_url) }

\* WebsiteScraper._extract_images
extract_images(page, base_url) ==
    { full_url \in { resolve_url(src, base_url) : src \in page.img } :
        full_url # <<>> /\ is_valid_image_url(full_url) }

(***************************************************************************)
(* Metadata scoring and the final ordering of scrape_website.              *)
(***************************************************************************)
home_paths ==
    { <<"/">>,
      <<"/", "i", "n", "d", "e", "x", ".", "h", "t", "m", "l">>,
      <<"/", "i", "n", "d", "e", "x", ".", "p", "h", "p">> }

\* len([p for p in path.split('/') if p])
SegmentCount(path) ==
    Cardinality({ i \in 1..Len(path) :
                    path[i] # "/" /\ (i = 1 \/ path[i - 1] = "/") })

ContainsAny(path, keywords) == \E k \in keywords : Contains(path, k)

EndsWithAny(path, extensions) == \E ext \in extensions : EndsWith(path, ext)

\* _calculate_priority, "Calcular prioridade baseada na profundidade"
PriorityOfDepth(depth) ==
    IF depth <= 1 THEN "0.9"
    ELSE IF depth <= 2 THEN "0.7"
    ELSE IF depth <= 3 THEN "0.6"
    ELSE "0.5"

\* _calculate_priority for a URL that is not the home page
PriorityOfPath(path) ==
    IF ContainsAny(path, { <<"/", "a", "b", "o", "u", "t", "/">>,
                           <<"/", "c", "o", "n", "t", "a", "c", "t", "/">>,
                           <<"/", "s", "e", "r", "v", "i", "c", "e", "s", "/">>,
                           <<"/", "p", "r", "o", "d", "u", "c", "t", "s", "/">> })
    THEN "0.8"
    ELSE IF ContainsAny(path, { <<"/", "b", "l", "o", "g", "/">>,
                                <<"/", "n", "e", "w", "s", "/">>,
                                <<"/", "a", "r", "t", "i", "c", "l", "e", "s", "/">> })
         THEN "0.7"
    ELSE IF EndsWithAny(path, image_extensions) THEN "0.4"
    ELSE IF EndsWithAny(path, { <<".", "c", "s", "s">>, <<".", "j", "s">>,
                                <<".", "p", "d", "f">> })
         THEN "0.3"
    ELSE PriorityOfDepth(SegmentCount(path))

\* WebsiteScraper._calculate_priority
calculate_priority(url, start) ==
    The({ IF url = start \/ parsed.path \in home_paths THEN "1.0"
          ELSE PriorityOfPath(Lower(parsed.path)) :
          parsed \in { urlparse(url) } })

FrequencyOfPath(path) ==
    IF ContainsAny(path, { <<"/", "b", "l", "o", "g", "/">>,
                           <<"/", "n", "e", "w", "s", "/">>,
                           <<"/", "p", "o", "s", "t", "s", "/">>,
                           <<"/", "a", "r", "t", "i", "c", "l", "e", "s", "/">> })
    THEN "daily"
    ELSE IF ContainsAny(path, { <<"/", "p", "r", "o", "d", "u", "c", "t", "s", "/">>,
                                <<"/", "s", "e", "r", "v", "i", "c", "e", "s", "/">>,
                                <<"/", "p", "o", "r", "t", "f", "o", "l", "i", "o", "/">> })
         THEN "weekly"
    ELSE IF EndsWithAny(path, image_extensions) THEN "yearly"
    ELSE IF ContainsAny(path, { <<"/", "a", "b", "o", "u", "t", "/">>,
                                <<"/", "c", "o", "n", "t", "a", "c", "t", "/">>,
                                <<"/", "p", "r", "i", "v", "a", "c", "y", "/">>,
                                <<"/", "t", "e", "r", "m", "s", "/">> })
         THEN "monthly"
    ELSE IF path \in home_paths THEN "weekly"
    ELSE "monthly"

\* WebsiteScraper._determine_change_frequency
determine_change_frequency(url) ==
    The({ FrequencyOfPath(path) : path \in { Lower(urlparse(url).path) } })

\* float(x['priority']), in tenths
PriorityTenths(p) ==
    CASE p = "1.0" -> 10
      [] p = "0.9" -> 9
      [] p = "0.8" -> 8
      [] p = "0.7" -> 7
      [] p = "0.6" -> 6
      [] p = "0.5" -> 5
      [] p = "0.4" -> 4
      [] p = "0.3" -> 3

\* the url_info dictionary of scrape_website; lastmod is the time stamp of
\* _get_last_modified_date, which no claim reads
url_info(url, start) ==
    [url |-> url,
     lastmod |-> "timestamp",
     changefreq |-> determine_change_frequency(url),
     priority |-> calculate_priority(url, start)]

\* the orders in which "for url in all_urls" may iterate over the set
RECURSIVE IterationOrders(_)
IterationOrders(S) ==
    IF S = {} THEN {<<>>}
    ELSE UNION { { <<x>> \o rest : rest \in IterationOrders(S \ {x}) } : x \in S }

\* one step of the stable sort, largest key first: x goes after every
\* element whose key is at least its own
RECURSIVE InsertByPriority(_, _)
InsertByPriority(sorted, x) ==
    IF sorted = <<>> THEN <<x>>
    ELSE IF PriorityTenths(Head(sorted).priority) >= PriorityTenths(x.priority)
         THEN <<Head(sorted)>> \o InsertByPriority(Tail(sorted), x)
         ELSE <<x>> \o sorted

RECURSIVE SortFrom(_, _)
SortFrom(sorted, list) ==
    IF list = <<>> THEN sorted
    ELSE The({ SortFrom(longer, rest) :
                 longer \in { InsertByPriority(sorted, Head(list)) },
                 rest \in { Tail(list) } })

\* The slip of leaving the list in iteration order.
sort_by_priority_unsorted(url_list) == url_list

\* url_list.sort(key=lambda x: float(x['priority']), reverse=True)
sort_by_priority(url_list) == SortFrom(<<>>, url_list)

(***************************************************************************)
(* The web the crawl runs against: a few small sites on host a, with       *)
(* cycles, self links, a chain, a diamond, links off the domain, and image *)
(* references written in several ways.                                     *)
(***************************************************************************)
OnA(tail) == HTTPS \o <<":", "/", "/", "a">> \o tail
OnUpperA(tail) == HTTPS \o <<":", "/", "/", "A">> \o tail
OnB(tail) == HTTPS \o <<":", "/", "/", "b">> \o tail

\* a cycle between / and /p/, self links, links off the domain, one image
\* referenced by path and with the host in capitals
SiteCycle ==
    (OnA(<<"/">>) :>
        [a |-> { <<"/">>, <<"/", "p", "/">>, OnB(<<"/", "x">>), <<"#", "t">> },
         link |-> {},
         img |-> { <<"/", "i", ".", "p", "n", "g">> }])
    @@ (OnA(<<"/", "p", "/">>) :>
        [a |-> { <<"/">>, <<"/", "p", "/">>, OnUpperA(<<"/", "q">>) },
         link |-> {},
         img |-> { <<"/", "i", ".", "p", "n", "g">>,
                   OnUpperA(<<"/", "i", ".", "p", "n", "g">>) }])

\* / links to /p/ and /q, /p/ to /q, /q to /r, /r back to /
SiteDiamond ==
    (OnA(<<"/">>) :>
        [a |-> { <<"/", "p", "/">>, OnA(<<"/", "q">>) }, link |-> {}, img |-> {}])
    @@ (OnA(<<"/", "p", "/">>) :>
        [a |-> { OnA(<<"/", "q">>) }, link |-> {}, img |-> {}])
    @@ (OnA(<<"/", "q">>) :>
        [a |-> { <<"r">> }, link |-> {}, img |-> {}])
    @@ (OnA(<<"/", "r">>) :>
        [a |-> { <<"/">> }, link |-> {}, img |-> {}])

\* a style sheet, and an image off the domain referenced with and without
\* a fragment
SiteAssets ==
    (OnA(<<"/">>) :>
        [a |-> { <<"/", "a", "b", "o", "u", "t", "/">>, <<"/", "s", ".", "c", "s", "s">> },
         link |-> { <<"/", "s", ".", "c", "s", "s">>, <<"/", "p", "/">> },
         img |-> { OnB(<<"/", "i", ".", "p", "n", "g">>),
                   OnB(<<"/", "i", ".", "p", "n", "g", "#", "v">>),
                   <<"/", "n", "o", "t", "e", ".", "t", "x", "t">> }])
    @@ (OnA(<<"/", "a", "b", "o", "u", "t", "/">>) :>
        [a |-> { <<"/">> }, link |-> {}, img |-> {}])

Sites == { SiteCycle, SiteDiamond, SiteAssets }

\* the seed URLs given to scrape_website
Seeds == { OnA(<<"/">>), OnUpperA(<<"/">>), OnA(<<"/", "#", "t">>) }

\* the markup served at url
PageAt(url) == IF url \in DOMAIN site THEN site[url] ELSE EmptyPage

(***************************************************************************)
(* Spec: one WebsiteScraper object and one scrape_website call.            *)
(***************************************************************************)
\* WebsiteScraper.__init__
Init ==
    /\ site \in Sites
    /\ max_depth \in 0..MaxDepth
    /\ include_images \in BOOLEAN
    /\ base_domain = <<>>
    /\ visited_urls = {}
    /\ found_urls = {}
    /\ found_images = {}
    /\ start_url = <<>>
    /\ pc = "idle"
    /\ call = <<>>
    /\ stack = <<>>
    /\ fetchLog = <<>>
    /\ result = <<>>
    /\ calls = 0
    /\ sleeps = 0
    /\ NormIdle
    /\ SitemapIdle

Top == stack[Len(stack)]

\* the frame on top of the stack with link taken out of its loop
WithoutLink(link) ==
    [stack EXCEPT ![Len(stack)].links = @ \ {link}]

\* the GET of the pending call, with its outcome
Logged(outcome) ==
    Append(fetchLog, [url |-> call.url, depth |-> call.depth,
                      from |-> call.from, outcome |-> outcome,
                      run |-> calls])

\* scrape_website with start_url normalized
StartAt(normalized) ==
    /\ start_url' = normalized
    /\ base_domain' = DomainOf(urlparse(normalized))
    /\ call' = [url |-> normalized, depth |-> 0, from |-> <<>>]

\* scrape_website up to its call of _scrape_recursive(start_url, 0)
Start ==
    /\ pc = "idle"
    /\ \E seed \in Seeds : StartAt(normalize_url(seed))
    /\ pc' = "call"
    /\ calls' = calls + 1
    /\ UNCHANGED <<site, max_depth, include_images, visited_urls, found_urls,
                   found_images, stack, fetchLog, result>>
    /\ UNCHANGED <<sleeps, normVars, sitemapVars>>

\* The slip of a depth test off by one: depth max_depth + 1 is crawled.
PrunedLate == call.depth > max_depth + 1 \/ call.url \in visited_urls

\* the guard of _scrape_recursive
Pruned == call.depth > max_depth \/ call.url \in visited_urls

\* _scrape_recursive: the call returns at its first test
Prune ==
    /\ pc = "call"
    /\ Pruned
    /\ pc' = "loop"
    /\ call' = <<>>
    /\ UNCHANGED <<site, max_depth, include_images, base_domain, visited_urls,
                   found_urls, found_images, start_url, stack, fetchLog, result>>
    /\ UNCHANGED <<calls, sleeps, normVars, sitemapVars>>

\* The slip of marking a URL visited only once its GET succeeded.
FetchFailUnmarked ==
    /\ pc = "call"
    /\ ~Pruned
    /\ \E outcome \in {"error", "non200"} : fetchLog' = Logged(outcome)
    /\ pc' = "loop"
    /\ call' = <<>>
    /\ UNCHANGED <<site, max_depth, include_images, base_domain, visited_urls,
                   found_urls, found_images, start_url, stack, result>>
    /\ UNCHANGED <<calls, sleeps, normVars, sitemapVars>>

\* The slip of recording a URL before its status is tested.
FetchFailRecorded ==
    /\ pc = "call"
    /\ ~Pruned
    /\ visited_urls' = visited_urls \cup {call.url}
    /\ found_urls' = found_urls \cup {call.url}
    /\ \E outcome \in {"error", "non200"} : fetchLog' = Logged(outcome)
    /\ pc' = "loop"
    /\ call' = <<>>
    /\ UNCHANGED <<site, max_depth, include_images, base_domain, found_images,
                   start_url, stack, result>>
    /\ UNCHANGED <<calls, sleeps, normVars, sitemapVars>>

\* _scrape_recursive: the GET raises (_make_request returns None) or
\* answers with another status than 200
FetchFail ==
    /\ pc = "call"
    /\ ~Pruned
    /\ visited_urls' = visited_urls \cup {call.url}
    /\ \E outcome \in {"error", "non200"} : fetchLog' = Logged(outcome)
    /\ pc' = "loop"
    /\ call' = <<>>
    /\ UNCHANGED <<site, max_depth, include_images, base_domain, found_urls,
                   found_images, start_url, stack, result>>
    /\ UNCHANGED <<calls, sleeps, normVars, sitemapVars>>

\* The slip of a missing content-type test: the links and the images of a
\* response that is not text/html are extracted too.
FetchOtherExtracting ==
    /\ pc = "call"
    /\ ~Pruned
    /\ visited_urls' = visited_urls \cup {call.url}
    /\ found_urls' = found_urls \cup {call.url}
    /\ fetchLog' = Logged("other")
    /\ found_images' = IF include_images
                       THEN found_images \cup extract_images(PageAt(call.url), call.url)
                       ELSE found_images
    /\ stack' = Append(stack, [url |-> call.url, depth |-> call.depth,
                               links |-> extract_links(PageAt(call.url), call.url)])
    /\ pc' = "loop"
    /\ call' = <<>>
    /\ UNCHANGED <<site, max_depth, include_images, base_domain, start_url, result>>
    /\ UNCHANGED <<calls, sleeps, normVars, sitemapVars>>

\* _scrape_recursive: status 200 with a content type that is not text/html
FetchOther ==
    /\ pc = "call"
    /\ ~Pruned
    /\ visited_urls' = visited_urls \cup {call.url}
    /\ found_urls' = found_urls \cup {call.url}
    /\ fetchLog' = Logged("other")
    /\ pc' = "loop"
    /\ call' = <<>>
    /\ UNCHANGED <<site, max_depth, include_images, base_domain, found_images,
                   start_url, stack, result>>
    /\ UNCHANGED <<calls, sleeps, normVars, sitemapVars>>

\* The slip of a call without its except clause: the exception of the parser
\* unwinds every active call.
FetchRaiseAborting ==
    /\ pc = "call"
    /\ ~Pruned
    /\ visited_urls' = visited_urls \cup {call.url}
    /\ found_urls' = found_urls \cup {call.url}
    /\ fetchLog' = Logged("raise")
    /\ stack' = <<>>
    /\ pc' = "loop"
    /\ call' = <<>>
    /\ UNCHANGED <<site, max_depth, include_images, base_domain, found_images,
                   start_url, result>>
    /\ UNCHANGED <<calls, sleeps, normVars, sitemapVars>>

\* _scrape_recursive: status 200, text/html, and the parser or an extractor
\* raises; the except clause of the call swallows it
FetchRaise ==
    /\ pc = "call"
    /\ ~Pruned
    /\ visited_urls' = visited_urls \cup {call.url}
    /\ found_urls' = found_urls \cup {call.url}
    /\ fetchLog' = Logged("raise")
    /\ pc' = "loop"
    /\ call' = <<>>
    /\ UNCHANGED <<site, max_depth, include_images, base_domain, found_images,
                   start_url, stack, result>>
    /\ UNCHANGED <<calls, sleeps, normVars, sitemapVars>>

\* _scrape_recursive: status 200, text/html; the links and the images are
\* extracted and the loop over the links begins
FetchHtml ==
    /\ pc = "call"
    /\ ~Pruned
    /\ visited_urls' = visited_urls \cup {call.url}
    /\ found_urls' = found_urls \cup {call.url}
    /\ fetchLog' = Logged("html")
    /\ found_images' = IF include_images
                       THEN found_images \cup extract_images(PageAt(call.url), call.url)
                       ELSE found_images
    /\ stack' = Append(stack, [url |-> call.url, depth |-> call.depth,
                               links |-> extract_links(PageAt(call.url), call.url)])
    /\ pc' = "loop"
    /\ call' = <<>>
    /\ UNCHANGED <<site, max_depth, include_images, base_domain, start_url, result>>
    /\ UNCHANGED <<calls, sleeps, normVars, sitemapVars>>

\* the loop over links: a link of the domain not yet visited; the call
\* sleeps self.delay and recurses
Follow ==
    /\ pc = "loop"
    /\ stack # <<>>
    /\ \E link \in Top.links :
         /\ is_same_domain(link) /\ link \notin visited_urls
         /\ stack' = WithoutLink(link)
         /\ call' = [url |-> link, depth |-> Top.depth + 1, from |-> Top.url]
    /\ pc' = "call"
    /\ sleeps' = sleeps + 1
    /\ UNCHANGED <<site, max_depth, include_images, base_domain, visited_urls,
                   found_urls, found_images, start_url, fetchLog, result>>
    /\ UNCHANGED <<calls, normVars, sitemapVars>>

\* the loop over links: a link off the domain or already visited
Skip ==
    /\ pc = "loop"
    /\ stack # <<>>
    /\ \E link \in Top.links :
         /\ ~(is_same_domain(link) /\ link \notin visited_urls)
         /\ stack' = WithoutLink(link)
    /\ UNCHANGED <<site, max_depth, include_images, base_domain, visited_urls,
                   found_urls, found_images, start_url, pc, call, fetchLog, result>>
    /\ UNCHANGED <<calls, sleeps, normVars, sitemapVars>>

\* The slip of a call that never returns: its frame stays on the stack.
ReturnStuck ==
    /\ pc = "loop"
    /\ stack # <<>>
    /\ Top.links = {}
    /\ UNCHANGED vars

\* the loop over links is over: the call returns to its caller
Return ==
    /\ pc = "loop"
    /\ stack # <<>>
    /\ Top.links = {}
    /\ stack' = DropLast(stack)
    /\ UNCHANGED <<site, max_depth, include_images, base_domain, visited_urls,
                   found_urls, found_images, start_url, pc, call, fetchLog, result>>
    /\ UNCHANGED <<calls, sleeps, normVars, sitemapVars>>

\* scrape_website after _scrape_recursive returned: the entries are built
\* in the iteration order of the set all_urls, sorted and returned
Finish ==
    /\ pc = "loop"
    /\ stack = <<>>
    /\ LET all_urls == found_urls \cup
                           (IF include_images THEN found_images ELSE {})
       IN  \E order \in IterationOrders(all_urls) :
             result' = sort_by_priority(
                           [i \in 1..Len(order) |-> url_info(order[i], start_url)])
    /\ pc' = "done"
    /\ UNCHANGED <<site, max_depth, include_images, base_domain, visited_urls,
                   found_urls, found_images, start_url, call, stack, fetchLog>>
    /\ UNCHANGED <<calls, sleeps, normVars, sitemapVars>>

Next ==
    \/ Start
    \/ Prune
    \/ FetchFail
    \/ FetchOther
    \/ FetchRaise
    \/ FetchHtml
    \/ Follow
    \/ Skip
    \/ Return
    \/ Finish

Spec == Init /\ [][Next]_vars

\* The crawl is one sequential thread and every GET returns (the session
\* passes timeout=10): as long as a step of the call is possible one is
\* taken.
SpecLive == Spec /\ WF_vars(Next)

(***************************************************************************)
(* SpecRepeat: scrape_website is called again on the WebsiteScraper object *)
(* once a call has returned.                                               *)
(***************************************************************************)
\* the seed URLs given to the calls after the first
LaterSeeds == Seeds \cup { OnA(<<"/", "p", "/">>) }

\* scrape_website, called on an object that ran it before, up to its call
\* of _scrape_recursive(start_url, 0)
StartAgain ==
    /\ pc = "done"
    /\ calls < MaxCalls
    /\ \E seed \in LaterSeeds : StartAt(normalize_url(seed))
    /\ pc' = "call"
    /\ calls' = calls + 1
    /\ UNCHANGED <<site, max_depth, include_images, visited_urls, found_urls,
                   found_images, stack, fetchLog, result>>
    /\ UNCHANGED <<sleeps, normVars, sitemapVars>>

NextRepeat ==
    \/ Start
    \/ StartAgain
    \/ Prune
    \/ FetchFail
    \/ FetchOther
    \/ FetchRaise
    \/ FetchHtml
    \/ Follow
    \/ Skip
    \/ Return
    \/ Finish

\* the object is built as in Init; the repeated calls run against the sites
\* with a cycle and with a diamond
InitRepeat == Init /\ site \in { SiteCycle, SiteDiamond }

SpecRepeat == InitRepeat /\ [][NextRepeat]_vars

(***************************************************************************)
(* SitemapGenerator.  A list of entries is held as runs: a run is one      *)
(* url_info dictionary and the number of times it stands in the list in a  *)
(* row, so that lists of 50,000 entries are within reach.  The document    *)
(* is held as its tree: the xmlns attribute and the tag of the root, and   *)
(* for every url element the characters written between the tags of its   *)
(* children.  The white space _indent_xml adds lies between elements and   *)
(* is no part of any loc text.                                             *)
(***************************************************************************)
sitemap_namespace == "http://www.sitemaps.org/schemas/sitemap/0.9"

\* validate_sitemap: "50.000 é o limite do protocolo"
MaxUrls == 50000

\* _is_valid_url: "limite do protocolo sitemap"
MaxLocLength == 2048

\* the control character U+0001, which XML 1.0 text cannot hold
CTRL == "U+0001"

\* \s of the pattern
Whitespace == {" ", "\t", "\n", "\r"}

\* the characters the pattern of _is_valid_url excludes
PatternExcluded ==
    Whitespace \cup {"<", ">", "\"", "'", "(", ")", "[", "]", "{", "}"}

\* re.match(r'^https?://[^\s<>"\'()[\]{}]+$', url) on the text after
\* "http://" or "https://": one or more characters out of the excluded
\* set; '$' also matches before one final line feed
MatchesTail(tail) ==
    /\ tail # <<>>
    /\ \/ \A i \in 1..Len(tail) : tail[i] \notin PatternExcluded
       \/ /\ Len(tail) > 1
          /\ tail[Len(tail)] = "\n"
          /\ \A i \in 1..(Len(tail) - 1) : tail[i] \notin PatternExcluded

MatchesPattern(url) ==
    \/ StartsWith(url, HTTP \o <<":", "/", "/">>) /\ MatchesTail(From(url, 7))
    \/ StartsWith(url, HTTPS \o <<":", "/", "/">>) /\ MatchesTail(From(url, 8))

\* SitemapGenerator._is_valid_url
is_valid_url(url) == MatchesPattern(url) /\ ~(Len(url) > MaxLocLength)

\* str.replace(c, repl) for one character c
RECURSIVE Replace(_, _, _)
Replace(text, c, repl) ==
    IF text = <<>> THEN <<>>
    ELSE (IF Head(text) = c THEN repl ELSE <<Head(text)>>)
             \o Replace(Tail(text), c, repl)

AMP == <<"&", "a", "m", "p", ";">>
LT == <<"&", "l", "t", ";">>
GT == <<"&", "g", "t", ";">>
QUOT == <<"&", "q", "u", "o", "t", ";">>
APOS == <<"&", "a", "p", "o", "s", ";">>

\* SitemapGenerator._escape_xml
escape_xml(text) ==
    IF text = <<>> THEN <<>>
    ELSE Replace(Replace(Replace(Replace(Replace(text,
             "&", AMP), "<", LT), ">", GT), "\"", QUOT), "'", APOS)

\* ET.tostring writes the text of an element with '&', '<' and '>' escaped
EscapeCdata(text) == Replace(Replace(Replace(text, "&", AMP), "<", LT), ">", GT)

\* SitemapGenerator._create_url_element: no element (None) for an empty or
\* invalid URL, else one url element with loc and the optional children
\* that are present ('' is absent)
create_url_element(info) ==
    IF info.url = <<>> \/ ~is_valid_url(info.url) THEN <<>>
    ELSE << [loc |-> escape_xml(info.url),
             lastmod |-> info.lastmod,
             changefreq |-> info.changefreq,
             priority |-> info.priority] >>

\* the elements of one run of the list, as _format_xml writes them
WrittenRun(run, element) ==
    [loc |-> EscapeCdata(element.loc),
     lastmod |-> element.lastmod,
     changefreq |-> element.changefreq,
     priority |-> element.priority,
     count |-> run.count]

\* urlset.append(url_element) unless url_element is None
Appended(run, url_element) ==
    IF url_element = <<>> THEN <<>> ELSE <<WrittenRun(run, url_element[1])>>

RECURSIVE WrittenRuns(_)
WrittenRuns(urls) ==
    IF urls = <<>> THEN <<>>
    ELSE Appended(Head(urls), create_url_element(Head(urls).info))
             \o WrittenRuns(Tail(urls))

\* SitemapGenerator.generate_sitemap with _format_xml
generate_sitemap(urls) ==
    [xmlns |-> sitemap_namespace, tag |-> "urlset", children |-> WrittenRuns(urls)]

\* c put before the text parsed behind it
Before(c, parsed) == [ok |-> parsed.ok, text |-> <<c>> \o parsed.text]

\* the XML parser on the characters between two tags: an entity reference
\* stands for its character; a character XML cannot hold, or a '&' that
\* starts no entity reference, is a ParseError
RECURSIVE ParsedText(_)
ParsedText(chars) ==
    IF chars = <<>> THEN [ok |-> TRUE, text |-> <<>>]
    ELSE IF Head(chars) = CTRL \/ Head(chars) = "<" THEN [ok |-> FALSE, text |-> <<>>]
    ELSE IF Head(chars) # "&" THEN Before(Head(chars), ParsedText(Tail(chars)))
    ELSE IF StartsWith(chars, AMP) THEN Before("&", ParsedText(From(chars, Len(AMP))))
    ELSE IF StartsWith(chars, LT) THEN Before("<", ParsedText(From(chars, Len(LT))))
    ELSE IF StartsWith(chars, GT) THEN Before(">", ParsedText(From(chars, Len(GT))))
    ELSE IF StartsWith(chars, QUOT) THEN Before("\"", ParsedText(From(chars, Len(QUOT))))
    ELSE IF StartsWith(chars, APOS) THEN Before("'", ParsedText(From(chars, Len(APOS))))
    ELSE [ok |-> FALSE, text |-> <<>>]

\* len(urls) of validate_sitemap
RECURSIVE CountOf(_)
CountOf(runs) == IF runs = <<>> THEN 0 ELSE Head(runs).count + CountOf(Tail(runs))

Invalid(error) == [valid |-> FALSE, url_count |-> 0, error |-> error]

\* SitemapGenerator.validate_sitemap
validate_sitemap(xml_content) ==
    IF \E k \in 1..Len(xml_content.children) :
           ~ParsedText(xml_content.children[k].loc).ok
    THEN Invalid("Erro de parsing XML")
    ELSE IF xml_content.xmlns # sitemap_namespace \/ xml_content.tag # "urlset"
         THEN Invalid("Namespace do sitemap invalido")
    ELSE IF CountOf(xml_content.children) > MaxUrls
         THEN Invalid("Muitas URLs no sitemap")
    ELSE IF \E k \in 1..Len(xml_content.children) :
                ParsedText(xml_content.children[k].loc).text = <<>>
         THEN Invalid("URL sem elemento <loc> encontrada")
    ELSE [valid |-> TRUE, url_count |-> CountOf(xml_content.children),
          error |-> ""]

(***************************************************************************)
(* SpecSitemap: generate_sitemap on a list, then validate_sitemap on the   *)
(* document.                                                               *)
(***************************************************************************)
OnE(tail) == HTTPS \o <<":", "/", "/", "e">> \o tail

SitemapUrls ==
    { OnE(<<"/", "x">>),
      OnE(<<"/", "?", "a", "&", "b">>),
      OnE(<<"/", "?", "a", "&", "b", "&", "c">>),
      HTTP \o <<":", "/", "/", "e">>,
      OnE(<<"/", "x", "'", "y">>),
      OnE(<<"/", "x", " ", "y">>),
      OnE(<<"/", "x", "\n">>),
      OnE(<<"/", CTRL>>),
      <<"f", "t", "p", ":", "/", "/", "e", "/", "x">>,
      <<>> }

SitemapInfos ==
    { [url |-> u, lastmod |-> "", changefreq |-> "", priority |-> p] :
        u \in SitemapUrls, p \in {"", "0.5"} }

\* how many times in a row an entry may stand in the list
RunCounts == {1, MaxUrls - 1}

SitemapRuns == { [info |-> i, count |-> c] : i \in SitemapInfos, c \in RunCounts }

SitemapLists == UNION { [1..k -> SitemapRuns] : k \in 0..MaxRuns }

SitemapInit ==
    /\ sPc = "input"
    /\ entries \in SitemapLists
    /\ xml = NoDocument
    /\ report = NoReport
    /\ NormIdle
    /\ CrawlIdle

Generate ==
    /\ sPc = "input"
    /\ xml' = generate_sitemap(entries)
    /\ sPc' = "generated"
    /\ UNCHANGED <<entries, report>>
    /\ UNCHANGED <<normVars, crawlVars>>

Validate ==
    /\ sPc = "generated"
    /\ report' = validate_sitemap(xml)
    /\ sPc' = "validated"
    /\ UNCHANGED <<entries, xml>>
    /\ UNCHANGED <<normVars, crawlVars>>

SitemapNext == Generate \/ Validate

SpecSitemap == SitemapInit /\ [][SitemapNext]_vars

(***************************************************************************)
(* Properties of the crawl (Spec).                                         *)
(***************************************************************************)
Fetched == { fetchLog[i].url : i \in 1..Len(fetchLog) }

\* C1: during one crawl run no URL is sent a GET more than once, and every
\* URL that was sent a GET is in visited_urls (the insert precedes the
\* fetch and any recursion), on every site, cyclic ones included.
C1_DispatchedOnce ==
    /\ \A i, j \in 1..Len(fetchLog) :
         fetchLog[i].url = fetchLog[j].url => i = j
    /\ Fetched \subseteq visited_urls
    /\ pc = "call" /\ ~Pruned => call.url \notin Fetched

\* C1 witness: the crawl of the cyclic site ended with both of its pages
\* fetched, each of which links to itself and to the other.
C1_Witness ==
    /\ pc = "done"
    /\ site = SiteCycle
    /\ Fetched = { OnA(<<"/">>), OnA(<<"/", "p", "/">>) }

\* the GET number i was reached from the seed by a chain of fetchLog[i].depth
\* extracted links, each followed from a page fetched as HTML one level up
ChainFromSeed(i) ==
    LET e == fetchLog[i]
    IN  IF e.depth = 0 THEN e.url = start_url /\ e.from = <<>>
        ELSE \E j \in 1..(i - 1) :
               /\ fetchLog[j].url = e.from
               /\ fetchLog[j].depth = e.depth - 1
               /\ fetchLog[j].outcome = "html"
               /\ e.url \in extract_links(PageAt(e.from), e.from)

\* C2: every URL of found_urls was dispatched at a depth d, 0 <= d <=
\* max_depth, along a chain of d extracted links from the seed, and no GET is
\* sent at depth max_depth + 1 or more.
C2_DepthBound ==
    /\ \A i \in 1..Len(fetchLog) :
         fetchLog[i].depth \in 0..max_depth /\ ChainFromSeed(i)
    /\ found_urls \subseteq Fetched

\* C2 witness: with max_depth = 1 the crawl of the diamond site ended with
\* /, /p/ and /q recorded and /r, two links away, cut off by the bound.
C2_Witness ==
    /\ pc = "done"
    /\ site = SiteDiamond
    /\ max_depth = 1
    /\ found_urls = { OnA(<<"/">>), OnA(<<"/", "p", "/">>), OnA(<<"/", "q">>) }

\* C3: every URL of found_urls and every fetched URL has the scheme://host
\* of the normalized seed; a link off the domain is never dispatched.
C3_DomainScoping ==
    \A u \in found_urls \cup Fetched \cup (IF pc = "call" THEN {call.url} ELSE {}) :
        DomainOf(urlparse(u)) = base_domain

\* C3 witness: the crawl ended after the links off the domain of the cyclic
\* site (https://b/x on /, https://A/q on /p/) were extracted and passed over.
C3_Witness ==
    /\ pc = "done"
    /\ site = SiteCycle
    /\ OnA(<<"/", "p", "/">>) \in found_urls
    /\ OnB(<<"/", "x">>) \in extract_links(PageAt(start_url), start_url)

\* C4: the list scrape_website returns holds no two entries whose URLs have
\* the same normalized form.
C4_Dedup ==
    pc = "done" =>
        \A i, j \in 1..Len(result) :
            normalize_url(result[i].url) = normalize_url(result[j].url) => i = j

\* C5: every priority of the returned list is within [0.0, 1.0] and the list
\* is sorted by priority, largest first.
C5_PrioritySorted ==
    pc = "done" =>
        /\ \A i \in 1..Len(result) : PriorityTenths(result[i].priority) \in 0..10
        /\ \A i, j \in 1..Len(result) :
             i < j => PriorityTenths(result[i].priority)
                          >= PriorityTenths(result[j].priority)

\* C5 witness: a returned list of at least four entries with three
\* different priorities.
C5_Witness ==
    /\ pc = "done"
    /\ Len(result) >= 4
    /\ Cardinality({ result[i].priority : i \in 1..Len(result) }) >= 3

\* the GET of the seed at depth 0 raised or answered another status than 200
SeedFailed ==
    /\ Len(fetchLog) >= 1
    /\ fetchLog[1].depth = 0
    /\ fetchLog[1].outcome \in {"error", "non200"}

\* C6 as claimed: when the seed cannot be fetched, scrape_website does not
\* return normally.
C6_SeedFailureRaises == SeedFailed => pc # "done"

\* C6 as amended: when the seed cannot be fetched, nothing is recorded, no
\* further GET is sent, and scrape_website returns normally with an empty
\* list.
C6_SeedFailureEmpty ==
    SeedFailed =>
        /\ found_urls = {} /\ found_images = {}
        /\ Len(fetchLog) = 1
        /\ pc \in {"loop", "done"} /\ stack = <<>>
        /\ pc = "done" => result = <<>>

\* C6 witness: scrape_website returned after the GET of the seed failed.
C6_Witness == SeedFailed /\ pc = "done"

(***************************************************************************)
(* Properties of _normalize_url (SpecNormalize).                           *)
(***************************************************************************)
\* C9: _normalize_url is idempotent.
C9_Idempotent == nPc = "twice" => nTwice = nOnce

\* the last segment of path that is not empty ('' when there is none)
RECURSIVE FinalSegment(_)
FinalSegment(path) ==
    IF path # <<>> /\ path[Len(path)] = "/" THEN FinalSegment(DropLast(path))
    ELSE LastSegment(path)

\* directory style: the path ends in '/', is longer than one character and
\* its final segment has no '.'
DirectoryStyle(path) ==
    /\ EndsWith(path, <<"/">>)
    /\ Len(path) > 1
    /\ "." \notin Range(FinalSegment(path))

\* file style: the last path segment holds a '.'
FileStyle(path) == "." \in Range(LastSegment(path))

WellFormed(url) ==
    /\ \/ StartsWith(url, HTTP \o <<":", "/", "/">>) /\ Len(url) > 7
       \/ StartsWith(url, HTTPS \o <<":", "/", "/">>) /\ Len(url) > 8
    /\ \A i \in 1..Len(url) : url[i] \notin PatternExcluded
    /\ Len(url) <= MaxLocLength

AllWellFormed ==
    \A k \in 1..Len(entries) : WellFormed(entries[k].info.url)

\* C7: for every list of at most 50,000 entries with well-formed url values
\* (the empty list included), validate_sitemap(generate_sitemap(entries))
\* is valid with url_count = len(entries).
C7_RoundTrip ==
    (sPc = "validated" /\ AllWellFormed /\ CountOf(entries) <= MaxUrls)
        => report.valid /\ report.url_count = CountOf(entries)

\* The round trip for lists whose url values, besides being well-formed,
\* hold only characters XML text can hold.
RoundTripOfXmlText ==
    (/\ sPc = "validated" /\ AllWellFormed /\ CountOf(entries) <= MaxUrls
     /\ \A k \in 1..Len(entries) : CTRL \notin Range(entries[k].info.url))
        => report.valid /\ report.url_count = CountOf(entries)

\* C8: a valid URL with '&' in its query string stands in a loc element of
\* the document with each '&' written once as '&amp;', and the parser reads
\* the original URL back from it.
C8_EscapedOnce ==
    sPc # "input" =>
        \A k \in 1..Len(entries) :
            (/\ is_valid_url(entries[k].info.url)
             /\ "&" \in Range(urlparse(entries[k].info.url).query))
                => \E j \in 1..Len(xml.children) :
                     /\ xml.children[j].loc = Replace(entries[k].info.url, "&", AMP)
                     /\ ParsedText(xml.children[j].loc).text = entries[k].info.url

(***************************************************************************)
(* Properties of the crawl (Spec), continued.                              *)
(***************************************************************************)
\* C11: the failure of a URL other than the seed (the GET raises, answers
\* another status than 200, or the parsing raises) stays within its call:
\* the call returns to the loop of its parent, whose frame and remaining
\* links are as they were, the URL is in visited_urls, a failed GET records
\* nothing, and no step takes a page out of found_urls.
C11_FailureSwallowed ==
    [][/\ found_urls \subseteq found_urls'
       /\ (/\ Len(fetchLog') = Len(fetchLog) + 1
           /\ fetchLog'[Len(fetchLog')].depth > 0
           /\ fetchLog'[Len(fetchLog')].outcome \in {"error", "non200", "raise"})
          => /\ stack # <<>> /\ stack' = stack
             /\ pc' = "loop"
             /\ fetchLog'[Len(fetchLog')].url \in visited_urls'
             /\ found_images' = found_images
             /\ fetchLog'[Len(fetchLog')].outcome \in {"error", "non200"}
                  => /\ found_urls' = found_urls
                     /\ fetchLog'[Len(fetchLog')].url \notin found_urls'
      ]_vars

\* C11 witness: the crawl ended after the GET of a link of the seed page
\* failed and another link of the same page was fetched after it.
C11_Witness ==
    /\ pc = "done"
    /\ \E i, j \in 1..Len(fetchLog) :
         /\ i < j
         /\ fetchLog[i].depth = 1 /\ fetchLog[j].depth = 1
         /\ fetchLog[i].outcome \in {"error", "non200"}
         /\ fetchLog[j].outcome = "html"
         /\ fetchLog[i].url \notin found_urls
         /\ fetchLog[j].url \in found_urls

\* the URLs whose GET was answered with status 200 and text/html and whose
\* markup was parsed
FetchedHtml ==
    { fetchLog[i].url : i \in { k \in 1..Len(fetchLog) : fetchLog[k].outcome = "html" } }

\* C12: a URL answered with status 200 is in found_urls whatever the content
\* type; links are followed and images added only from a URL answered with
\* text/html: every GET below the seed was sent for a link of such a page,
\* every active loop runs over the links of such a page, and every image of
\* found_images was extracted from such a page.
C12_FetchedOther ==
    /\ \A i \in 1..Len(fetchLog) :
         /\ fetchLog[i].outcome \in {"html", "other", "raise"}
              => fetchLog[i].url \in found_urls
         /\ fetchLog[i].depth > 0 => fetchLog[i].from \in FetchedHtml
    /\ \A k \in 1..Len(stack) : stack[k].url \in FetchedHtml
    /\ (pc = "call" /\ call.from # <<>>) => call.from \in FetchedHtml
    /\ found_images \subseteq
         UNION { extract_images(PageAt(u), u) : u \in FetchedHtml }

\* C12 witness: the crawl ended with a page below the seed answered with
\* another content type: it is recorded, its markup holds a link and an
\* image reference, and no GET was sent from it and no image added.
C12_Witness ==
    /\ pc = "done"
    /\ include_images
    /\ \E i \in 1..Len(fetchLog) :
         /\ fetchLog[i].outcome = "other"
         /\ fetchLog[i].depth = 1
         /\ fetchLog[i].url \in found_urls
         /\ extract_links(PageAt(fetchLog[i].url), fetchLog[i].url) # {}
         /\ extract_images(PageAt(fetchLog[i].url), fetchLog[i].url) # {}
         /\ \A j \in 1..Len(fetchLog) : fetchLog[j].from # fetchLog[i].url

\* the scheme of parsed is the seed's and its host is the seed's host up to
\* letter case
SeedHostOf(parsed, seed) ==
    /\ parsed.scheme = seed.scheme
    /\ Lower(parsed.netloc) = Lower(seed.netloc)

\* the page was fetched as text/html above the depth bound, so that its
\* links are candidates of the crawl
Expanded(page) ==
    \E i \in 1..Len(fetchLog) :
        /\ fetchLog[i].url = page
        /\ fetchLog[i].outcome = "html"
        /\ fetchLog[i].depth < max_depth

\* C13: for an absolute href whose scheme is the seed's and whose host is the
\* seed's host up to letter case, _is_same_domain is true, _resolve_url
\* returns it normalized, and the crawl follows it from a page it expands;
\* for an href of another host _is_same_domain is false.
C13_CaseInsensitiveHost ==
    pc # "idle" =>
        \A page \in DOMAIN site : \A href \in site[page].a :
            StartsWith(href, HTTP) =>
                /\ SeedHostOf(urlparse(href), urlparse(start_url))
                     => /\ is_same_domain(href)
                        /\ resolve_url(href, page) = normalize_url(href)
                        /\ (pc = "done" /\ Expanded(page))
                             => normalize_url(href) \in visited_urls
                /\ ~SeedHostOf(urlparse(href), urlparse(start_url))
                     => ~is_same_domain(href)

(***************************************************************************)
(* Properties of repeated calls (SpecRepeat).                              *)
(***************************************************************************)
\* the pages the call number run recorded: the URLs it was answered 200 for
PagesOf(run) ==
    { fetchLog[i].url : i \in { k \in 1..Len(fetchLog) :
                                  /\ fetchLog[k].run = run
                                  /\ fetchLog[k].outcome \in {"html", "other", "raise"} } }

\* the images the call number run extracted
ImagesOf(run) ==
    UNION { extract_images(PageAt(fetchLog[i].url), fetchLog[i].url) :
              i \in { k \in 1..Len(fetchLog) :
                        fetchLog[k].run = run /\ fetchLog[k].outcome = "html" } }

\* what a scraper returns that starts from empty sets and gets the answers
\* the call number run got
FreshUrls(run) ==
    PagesOf(run) \cup (IF include_images THEN ImagesOf(run) ELSE {})

\* C14: a scrape_website call made on an object that ran one before sends
\* the GET of its seed and returns the entries of the URLs recorded during
\* that call, as a fresh object does, none of them found by the earlier call
\* only.
C14_RunScoped ==
    (pc = "done" /\ calls >= 2) =>
        /\ \E i \in 1..Len(fetchLog) :
             /\ fetchLog[i].run = calls
             /\ fetchLog[i].depth = 0
             /\ fetchLog[i].url = start_url
        /\ { result[k].url : k \in 1..Len(result) } = FreshUrls(calls)

\* The first call on an object returns the entries of the URLs it recorded.
FirstCallFresh ==
    (pc = "done" /\ calls = 1) =>
        { result[k].url : k \in 1..Len(result) } = FreshUrls(1)

(***************************************************************************)
(* Properties of the order of the returned list (Spec).                    *)
(***************************************************************************)
\* the place of a recorded page in the discovery order: the number of its
\* GET, the crawl being a pre-order depth-first traversal
DiscoveryIndex(url) ==
    CHOOSE i \in 1..Len(fetchLog) : fetchLog[i].url = url

\* C15: in the returned list two pages of equal priority stand in their
\* discovery order, the order in which the crawl recorded them.
C15_TieBreakByDiscovery ==
    pc = "done" =>
        \A i, j \in 1..Len(result) :
            (/\ i < j
             /\ result[i].priority = result[j].priority
             /\ result[i].url \in found_urls
             /\ result[j].url \in found_urls)
                => DiscoveryIndex(result[i].url) < DiscoveryIndex(result[j].url)

(***************************************************************************)
(* Properties of the politeness delay (Spec).                              *)
(***************************************************************************)
\* the GETs sent below the seed, each for a link of a loop
DispatchedLinks == { i \in 1..Len(fetchLog) : fetchLog[i].depth > 0 }

\* C16: every time.sleep(self.delay) of the loop is followed at once by the
\* dispatch (visited_urls.add and GET) of the link it was made for: the call
\* that follows a wait does not return at its first test, and once it is
\* over there are as many waits as GETs sent for links.
C16_DelayBeforeDispatch ==
    /\ (pc = "call" /\ call.from # <<>>) => ~Pruned
    /\ pc # "call" => sleeps = Cardinality(DispatchedLinks)

(***************************************************************************)
(* Termination (SpecLive).                                                 *)
(***************************************************************************)
\* the links of the domain in the markup served at url
DomainLinks(url) ==
    { link \in extract_links(PageAt(url), url) : is_same_domain(link) }

\* S with the URLs one link away from it
OneHopFrom(S) == S \cup UNION { DomainLinks(u) : u \in S }

\* the URLs of the domain at most hops links away from the seed
RECURSIVE ReachableWithin(_)
ReachableWithin(hops) ==
    IF hops = 0 THEN {start_url} ELSE OneHopFrom(ReachableWithin(hops - 1))

\* C17: on every site, cyclic ones included, with every max_depth and every
\* pattern of fetch outcomes, scrape_website eventually returns, having sent
\* at most one GET per URL of the domain reachable from the seed within
\* max_depth links.
C17_Terminates ==
    /\ <>(pc = "done")
    /\ [](/\ Fetched \subseteq ReachableWithin(max_depth)
          /\ Len(fetchLog) <= Cardinality(ReachableWithin(max_depth)))

\* C17 witness: the crawl of the cyclic site returned after one GET for each
\* of the URLs within reach, one of them unanswered.
C17_Witness ==
    /\ pc = "done"
    /\ site = SiteCycle
    /\ max_depth >= 1
    /\ Len(fetchLog) = Cardinality(ReachableWithin(max_depth))
    /\ \E i \in 1..Len(fetchLog) : fetchLog[i].outcome = "error"

(***************************************************************************)
(* Completeness (Spec).                                                    *)
(***************************************************************************)
\* every GET of the run was answered with status 200 and text/html
AllHtml == \A i \in 1..Len(fetchLog) : fetchLog[i].outcome = "html"

\* C18: when every GET is answered with text/html, every URL of the domain
\* whose shortest link distance from the seed is at most max_depth is in
\* found_urls when scrape_website returns, in whatever order the links of a
\* page are iterated.
C18_CompleteToDepth ==
    (pc = "done" /\ AllHtml) => ReachableWithin(max_depth) \subseteq found_urls

====
